---- MODULE Spec2Model ----
(***************************************************************************)
(* Emission scoring, baseline estimation, fuzzy suggestion engine and the  *)
(* checklist submission path of the tideshift backend (carbon.py, app.py,  *)
(* models.py).                                                             *)
(*                                                                         *)
(* Numbers.  Python floats are modelled as exact rationals <<n, d>> in     *)
(* lowest terms with d > 0, so that 0.9 * b, the triangle slopes, the      *)
(* interpolation and the centroid are computed as the code computes them,  *)
(* without the 1e-16 rounding of IEEE doubles.                             *)
(***************************************************************************)
EXTENDS Integers, Sequences, FiniteSets, TLC

VARIABLES
    fn,               \* the engine function a direct call exercises ("service" in the service)
    args,             \* the arguments of that call
    ret,              \* its return value, once pc = "done"
    pc,               \* "call" before the function ran, "done" after, "serve" in the service
    users,            \* table users: id -> row
    dailycarbonlogs,  \* table dailycarbonlogs: rows in insertion order
    dailyGoalsLogs,   \* table dailyGoalsLogs: rows in insertion order
    today,            \* date.today() as a day number
    request,          \* the last request served
    response          \* the response to it

vars == <<fn, args, ret, pc, users, dailycarbonlogs, dailyGoalsLogs, today,
          request, response>>
storeVars == <<users, dailycarbonlogs, dailyGoalsLogs, today, request, response>>
callVars == <<fn, args, ret, pc>>

(***************************************************************************)
(* Exact rational arithmetic                                               *)
(***************************************************************************)
Abs(n) == IF n < 0 THEN -n ELSE n

RECURSIVE GCD(_, _)
GCD(a, b) == IF b = 0 THEN a ELSE GCD(b, a % b)

Rat(n, d) ==
    IF d = 1 THEN <<n, 1>>
    ELSE LET g == GCD(Abs(n), Abs(d))
             s == IF d < 0 THEN -1 ELSE 1
         IN  <<(s * n) \div g, (s * d) \div g>>

FromInt(n) == <<n, 1>>
\* a sum is taken over the least common denominator, to keep the
\* intermediate integers small
RAdd(p, q) ==
    IF p[1] = 0 THEN q
    ELSE IF q[1] = 0 THEN p
    ELSE IF p[2] = q[2] THEN Rat(p[1] + q[1], p[2])
    ELSE LET g == GCD(p[2], q[2])
         IN  Rat(p[1] * (q[2] \div g) + q[1] * (p[2] \div g), (p[2] \div g) * q[2])
RNeg(p) == <<-p[1], p[2]>>
RSub(p, q) == RAdd(p, RNeg(q))
RMul(p, q) == IF p[1] = 0 \/ q[1] = 0 THEN <<0, 1>> ELSE Rat(p[1] * q[1], p[2] * q[2])
RInv(p) == Rat(p[2], p[1])
RDiv(p, q) == RMul(p, RInv(q))
RLt(p, q) == p[1] * q[2] < q[1] * p[2]
RLe(p, q) == p[1] * q[2] <= q[1] * p[2]
RMax(p, q) == IF RLt(p, q) THEN q ELSE p
RMin(p, q) == IF RLt(q, p) THEN q ELSE p
RAbs(p) == <<Abs(p[1]), p[2]>>
Zero == FromInt(0)
One == FromInt(1)
IntMax(a, b) == IF a < b THEN b ELSE a

(***************************************************************************)
(* Static tables of carbon.py                                              *)
(***************************************************************************)
Continuous == <<"carTravelKm", "showerTimeMinutes", "electronicTimeHours">>
ContinuousKeys == {"carTravelKm", "showerTimeMinutes", "electronicTimeHours"}
NegativeKeys == {"packagedFood", "onlineShopping", "wasteFood", "airConditioningHeating"}
PositiveKeys == {"noDriving", "plantMealThanMeat", "useTumbler", "saveEnergy",
                 "separateRecycleWaste"}

\* The keys of EMISSION_FACTORS in insertion order.
ActivityOrder ==
    <<"carTravelKm", "packagedFood", "showerTimeMinutes", "electronicTimeHours",
      "onlineShopping", "wasteFood", "airConditioningHeating", "noDriving",
      "plantMealThanMeat", "useTumbler", "saveEnergy", "separateRecycleWaste">>
Activities == {ActivityOrder[i] : i \in 1..Len(ActivityOrder)}

EMISSION_FACTORS ==
    [a \in Activities |->
        CASE a = "carTravelKm" -> Rat(21, 100)
          [] a = "packagedFood" -> Rat(5, 10)
          [] a = "showerTimeMinutes" -> Rat(5, 100)
          [] a = "electronicTimeHours" -> Rat(6, 100)
          [] a = "onlineShopping" -> Rat(1, 1)
          [] a = "wasteFood" -> Rat(9, 10)
          [] a = "airConditioningHeating" -> Rat(15, 10)
          [] a = "noDriving" -> Rat(-1, 1)
          [] a = "plantMealThanMeat" -> Rat(-2, 1)
          [] a = "useTumbler" -> Rat(-2, 10)
          [] a = "saveEnergy" -> Rat(-3, 10)
          [] a = "separateRecycleWaste" -> Rat(-7, 10)]

DEFAULT_VALUES ==
    [k \in ContinuousKeys |->
        CASE k = "carTravelKm" -> 10
          [] k = "showerTimeMinutes" -> 12
          [] k = "electronicTimeHours" -> 8]

\* a Python dict holds values, not expressions: the mapping is built once,
\* when the dict is made
dict(f) == f @@ <<>>

(***************************************************************************)
(* Python values of a JSON payload.  A value is tagged with its type: a    *)
(* bool, a number (int or float, as a rational n/d), a non-numeric string, *)
(* None (JSON null), or the key is absent from the mapping.                *)
(***************************************************************************)
PyBool(v) == [t |-> "bool", n |-> IF v THEN 1 ELSE 0, d |-> 1]
PyNum(n, d) == [t |-> "num", n |-> Rat(n, d)[1], d |-> Rat(n, d)[2]]
PyInt(n) == PyNum(n, 1)
PyStr == [t |-> "str", n |-> 0, d |-> 1]
PyNone == [t |-> "none", n |-> 0, d |-> 1]
PyAbsent == [t |-> "absent", n |-> 0, d |-> 1]

\* payload.get(key, default) and payload.get(key)
get(payload, key, default) ==
    IF payload[key].t = "absent" THEN default ELSE payload[key]

\* float(value): booleans and numbers convert, strings and None raise
float_raises(value) == value.t \in {"str", "none"}
float(value) == <<value.n, value.d>>

\* truthiness of a value in "if value:"
truthy(value) == value.t \in {"bool", "num"} /\ value.n # 0

\* a nullable column or attribute: <<>> is None, <<v>> holds v
None == <<>>
Some(v) == <<v>>
\* "v or 0" for a nullable number
or0(v) == IF v = None \/ v[1] = 0 THEN 0 ELSE v[1]

(***************************************************************************)
(* calculate_carbon_emissions                                              *)
(***************************************************************************)
\* float(value) raises for some non-boolean entry
calculate_raises(payload) ==
    \E a \in Activities :
        LET value == get(payload, a, PyInt(0))
        IN  value.t # "bool" /\ float_raises(value)

\* the loop over EMISSION_FACTORS.items(), activities 1..i:
\* <<negative_emissions, positive_reductions>>
RECURSIVE emission_pools(_, _)
emission_pools(payload, i) ==
    IF i = 0 THEN <<Zero, Zero>>
    ELSE
      LET prev == emission_pools(payload, i - 1)
          activity == ActivityOrder[i]
          factor == EMISSION_FACTORS[activity]
          value == get(payload, activity, PyInt(0))
      IN  IF value.t = "bool"
          THEN IF truthy(value)
               THEN IF RLt(factor, Zero)
                    THEN <<prev[1], RAdd(prev[2], RAbs(factor))>>
                    ELSE <<RAdd(prev[1], factor), prev[2]>>
               ELSE prev
          ELSE <<RAdd(prev[1], RMul(float(value), factor)), prev[2]>>

\* a total that is not clamped at zero
total_unclamped(negative_emissions, positive_reductions) ==
    RSub(negative_emissions, positive_reductions)
\* total_emissions = max(0, negative_emissions - positive_reductions)
total_emissions(negative_emissions, positive_reductions) ==
    RMax(Zero, RSub(negative_emissions, positive_reductions))

calculate_carbon_emissions(payload) ==
    LET pools == emission_pools(payload, Len(ActivityOrder))
    IN  total_emissions(pools[1], pools[2])

(***************************************************************************)
(* classify_level                                                          *)
(***************************************************************************)
\* a classifier whose second threshold is closed instead of half-open
classify_level_closed(total_emission) ==
    IF RLt(total_emission, Rat(25, 10)) THEN 1
    ELSE IF RLe(total_emission, FromInt(5)) THEN 2
    ELSE IF RLt(total_emission, FromInt(8)) THEN 3
    ELSE IF RLt(total_emission, FromInt(12)) THEN 4
    ELSE 5

classify_level(total_emission) ==
    IF RLt(total_emission, Rat(25, 10)) THEN 1
    ELSE IF RLt(total_emission, FromInt(5)) THEN 2
    ELSE IF RLt(total_emission, FromInt(8)) THEN 3
    ELSE IF RLt(total_emission, FromInt(12)) THEN 4
    ELSE 5

(***************************************************************************)
(* CarbonFuzzySystem.calculate_normal_values                               *)
(***************************************************************************)
\* list.sort() of a list of integers, ascending (by insertion)
RECURSIVE insert_sorted(_, _)
insert_sorted(sorted, v) ==
    IF sorted = <<>> THEN <<v>>
    ELSE IF v <= Head(sorted) THEN <<v>> \o sorted
    ELSE <<Head(sorted)>> \o insert_sorted(Tail(sorted), v)

RECURSIVE sort(_)
sort(data) ==
    IF data = <<>> THEN <<>>
    ELSE insert_sorted(sort(Tail(data)), Head(data))

\* [log.<k> or 0 for log in historical_data]
column(historical_data, k) ==
    [i \in 1..Len(historical_data) |-> or0(historical_data[i][k])]

\* a median picked at the lower middle index (n - 1) // 2
middle_lower(n) == (n - 1) \div 2
\* middle = len(car_data) // 2
middle(n) == n \div 2

calculate_normal_values(historical_data) ==
    IF Len(historical_data) < 3 THEN DEFAULT_VALUES
    ELSE [k \in ContinuousKeys |->
            sort(column(historical_data, k))[middle(Len(historical_data)) + 1]]

(***************************************************************************)
(* scikit-fuzzy primitives as fuzzy_system_analysis calls them.  A range   *)
(* np.arange(0, n, 1) is the set of grid points 0..n-1; a membership       *)
(* function sampled on it is a function from the grid points to rationals. *)
(***************************************************************************)
arange(n) == 0 .. (n - 1)

\* fuzz.trimf asserts a <= b <= c and raises AssertionError otherwise.
trimf_raises(abc) == ~(RLe(abc[1], abc[2]) /\ RLe(abc[2], abc[3]))

\* fuzz.trimf(x, [a, b, c]): the triangle sampled at the grid points only.
trimf(x, abc) ==
    [g \in x |->
        LET a == abc[1]
            b == abc[2]
            c == abc[3]
            v == FromInt(g)
        IN  IF v = b THEN One
            ELSE IF a # b /\ RLt(a, v) /\ RLt(v, b)
                 THEN RDiv(RSub(v, a), RSub(b, a))
            ELSE IF b # c /\ RLt(b, v) /\ RLt(v, c)
                 THEN RDiv(RSub(c, v), RSub(c, b))
            ELSE Zero]

\* floor of a rational
Floor(p) == p[1] \div p[2]

\* fuzz.interp_membership(x, xmf, xx) = np.interp(xx, x, xmf, left=0, right=0):
\* linear interpolation between the two neighbouring grid points, 0 outside.
interp_membership(x, xmf, xx) ==
    LET lo == Floor(xx)
        last == Cardinality(x) - 1
    IN  IF RLt(xx, Zero) \/ RLt(FromInt(last), xx) THEN Zero
        ELSE IF xx = FromInt(lo) THEN xmf[lo]
        ELSE RAdd(xmf[lo],
                  RMul(RSub(xx, FromInt(lo)), RSub(xmf[lo + 1], xmf[lo])))

\* elementwise product of a sampled membership function with a degree
scaled(mfx, degree) == [g \in DOMAIN mfx |-> RMul(mfx[g], degree)]

\* sum of the samples mfx[lo..hi] (summed by halves)
RECURSIVE mf_sum(_, _, _)
mf_sum(mfx, lo, hi) ==
    IF lo > hi THEN Zero
    ELSE IF lo = hi THEN mfx[lo]
    ELSE LET mid == (lo + hi) \div 2
         IN  RAdd(mf_sum(mfx, lo, mid), mf_sum(mfx, mid + 1, hi))

\* fuzz.defuzz refuses a membership function whose samples sum to zero.
defuzz_raises(n, mfx) == mf_sum(mfx, 0, n - 1) = Zero

\* skfuzzy centroid, one segment [i-1, i]: <<moment * area, area>> of the
\* trapezoid under the samples (rectangle, two triangles, general case);
\* a segment of zero height contributes nothing.
centroid_segment(mfx, i) ==
    LET x1 == FromInt(i - 1)
        y1 == mfx[i - 1]
        y2 == mfx[i]
        half == Rat(1, 2)
        moment ==
            IF y1 = y2 THEN RAdd(x1, half)
            ELSE IF y1 = Zero THEN RAdd(Rat(2, 3), x1)
            ELSE IF y2 = Zero THEN RAdd(Rat(1, 3), x1)
            ELSE RAdd(RDiv(RMul(Rat(2, 3), RAdd(y2, RMul(half, y1))),
                           RAdd(y1, y2)), x1)
        area ==
            IF y1 = y2 THEN y1
            ELSE IF y1 = Zero THEN RMul(half, y2)
            ELSE IF y2 = Zero THEN RMul(half, y1)
            ELSE RMul(half, RAdd(y1, y2))
    IN  IF y1 = Zero /\ y2 = Zero THEN <<Zero, Zero>>
        ELSE <<RMul(moment, area), area>>

\* <<sum_moment_area, sum_area>> over the segments lo..hi (summed by halves)
RECURSIVE centroid_sums(_, _, _)
centroid_sums(mfx, lo, hi) ==
    IF lo > hi THEN <<Zero, Zero>>
    ELSE IF lo = hi THEN centroid_segment(mfx, lo)
    ELSE LET mid == (lo + hi) \div 2
             l == centroid_sums(mfx, lo, mid)
             r == centroid_sums(mfx, mid + 1, hi)
         IN  <<RAdd(l[1], r[1]), RAdd(l[2], r[2])>>

\* fuzz.defuzz(x, mfx, 'centroid') on the grid 0..n-1, for a non-zero mfx:
\* sum_moment_area / sum_area.
defuzz(n, mfx) ==
    LET s == centroid_sums(mfx, 1, n - 1)
    IN  RDiv(s[1], s[2])

(***************************************************************************)
(* CarbonFuzzySystem.fuzzy_system_analysis                                 *)
(***************************************************************************)
\* a triangle whose right corner is at 3 * b
high_abc_wide(b) == <<Rat(8 * b, 10), Rat(12 * b, 10), FromInt(3 * b)>>
\* corners of the "high usage" triangle: [b * 0.8, b * 1.2, b * 2]
high_abc(b) == <<Rat(8 * b, 10), Rat(12 * b, 10), FromInt(2 * b)>>

\* np.arange(0, max(floor, b * 3), 1)
usage_range(floor, b) == arange(IntMax(floor, b * 3))

range_suggestion == arange(21)
suggestion_light == trimf(range_suggestion, <<FromInt(2), FromInt(5), FromInt(8)>>)
suggestion_moderate == trimf(range_suggestion, <<FromInt(4), FromInt(8), FromInt(12)>>)
suggestion_aggressive == trimf(range_suggestion, <<FromInt(8), FromInt(12), FromInt(16)>>)

\* degree_* = interp_membership(range, trimf(range, corners), actual)
membership_degree(floor, b, x) ==
    interp_membership(usage_range(floor, b),
                      trimf(usage_range(floor, b), high_abc(b)), x)

\* a minimum limit of 80% of normal
minimum_limit_low(b) == Rat(8 * b, 10)
\* minimum limit, 90% of normal
minimum_limit(b) == Rat(9 * b, 10)

\* the block entered also when the actual value equals the baseline
decision_rule_inclusive(x, b, degree, hi, mid) ==
    IF RLe(FromInt(b), x)
    THEN IF RLt(Rat(6, 10), degree)
         THEN RMax(Rat(9 * b, 10),
                   RSub(x, RMul(defuzz(21, scaled(suggestion_aggressive, degree)), hi)))
         ELSE IF RLt(Rat(3, 10), degree)
         THEN RMax(Rat(9 * b, 10),
                   RSub(x, RMul(defuzz(21, scaled(suggestion_moderate, degree)), mid)))
         ELSE x
    ELSE x

\* the if/elif/else block of one behaviour; hi and mid are its two
\* damping multipliers.
decision_rule(x, b, degree, hi, mid) ==
    IF RLt(FromInt(b), x)
    THEN IF RLt(Rat(6, 10), degree)
         THEN RMax(minimum_limit(b),
                   RSub(x, RMul(defuzz(21, scaled(suggestion_aggressive, degree)), hi)))
         ELSE IF RLt(Rat(3, 10), degree)
         THEN RMax(minimum_limit(b),
                   RSub(x, RMul(defuzz(21, scaled(suggestion_moderate, degree)), mid)))
         ELSE x
    ELSE x

\* whether the defuzz call of the block, if reached, raises
decision_raises(x, b, degree) ==
    /\ RLt(FromInt(b), x)
    /\ RLt(Rat(3, 10), degree)
    /\ IF RLt(Rat(6, 10), degree)
       THEN defuzz_raises(21, scaled(suggestion_aggressive, degree))
       ELSE defuzz_raises(21, scaled(suggestion_moderate, degree))

\* "do not let the suggestion be higher than normal"
clamp_no_ceiling(suggested, b) == suggested
\* a ceiling at 90% of normal instead of normal
clamp_to_floor(suggested, b) == RMin(suggested, Rat(9 * b, 10))
clamp_to_normal(suggested, b) == RMin(suggested, FromInt(b))

domain_floor ==
    [k \in ContinuousKeys |->
        CASE k = "carTravelKm" -> 50
          [] k = "showerTimeMinutes" -> 30
          [] k = "electronicTimeHours" -> 24]

damping_aggressive ==
    [k \in ContinuousKeys |->
        CASE k = "carTravelKm" -> Rat(6, 10)
          [] k = "showerTimeMinutes" -> Rat(5, 10)
          [] k = "electronicTimeHours" -> Rat(4, 10)]

damping_moderate ==
    [k \in ContinuousKeys |->
        CASE k = "carTravelKm" -> Rat(4, 10)
          [] k = "showerTimeMinutes" -> Rat(3, 10)
          [] k = "electronicTimeHours" -> Rat(25, 100)]

\* actual is [k -> rational], normal_values is [k -> integer]
degree_of(k, actual, normal_values) ==
    membership_degree(domain_floor[k], normal_values[k], actual[k])

\* the three degree_* values
degrees_of(actual, normal_values) ==
    LET degree(k) == degree_of(k, actual, normal_values)
    IN  dict([k \in ContinuousKeys |-> degree(k)])

\* some statement of the try block raises
try_raises(actual, normal_values, degrees) ==
    \/ \E k \in ContinuousKeys : trimf_raises(high_abc(normal_values[k]))
    \/ \E k \in ContinuousKeys :
          decision_raises(actual[k], normal_values[k], degrees[k])

\* the dictionary returned at the end of the try block
normal_analysis(actual, normal_values, degrees) ==
    LET suggested(k) ==
            clamp_to_normal(
                decision_rule(actual[k], normal_values[k], degrees[k],
                              damping_aggressive[k], damping_moderate[k]),
                normal_values[k])
        limit(k) == minimum_limit(normal_values[k])
    IN  [suggestions |-> dict([k \in ContinuousKeys |-> suggested(k)]),
         membership_degrees |-> degrees,
         minimum_limits |-> dict([k \in ContinuousKeys |-> limit(k)]),
         normal_values |-> normal_values]

\* the dictionary returned by the except block
degraded_analysis(actual, normal_values) ==
    LET reduced(k) == RMul(actual[k], Rat(9, 10))
        limit(k) == RMul(actual[k], Rat(8, 10))
        none(k) == Zero
    IN  [suggestions |-> dict([k \in ContinuousKeys |-> reduced(k)]),
         membership_degrees |-> dict([k \in ContinuousKeys |-> none(k)]),
         minimum_limits |-> dict([k \in ContinuousKeys |-> limit(k)]),
         normal_values |-> normal_values]

\* a variant that falls back per behaviour instead of for the whole analysis
analysis_per_behaviour(actual, normal_values) ==
    LET degree_at(k) == degree_of(k, actual, normal_values)
        bad(k) == \/ trimf_raises(high_abc(normal_values[k]))
                  \/ decision_raises(actual[k], normal_values[k], degree_at(k))
        suggestion(k) ==
            IF bad(k) THEN RMul(actual[k], Rat(9, 10))
            ELSE clamp_to_normal(
                     decision_rule(actual[k], normal_values[k], degree_at(k),
                                   damping_aggressive[k], damping_moderate[k]),
                     normal_values[k])
        degree(k) == IF bad(k) THEN Zero ELSE degree_at(k)
        limit(k) ==
            IF bad(k) THEN RMul(actual[k], Rat(8, 10))
            ELSE minimum_limit(normal_values[k])
    IN  [suggestions |-> dict([k \in ContinuousKeys |-> suggestion(k)]),
         membership_degrees |-> dict([k \in ContinuousKeys |-> degree(k)]),
         minimum_limits |-> dict([k \in ContinuousKeys |-> limit(k)]),
         normal_values |-> normal_values]

fuzzy_system_analysis(actual, normal_values) ==
    LET degrees == degrees_of(actual, normal_values)
    IN  IF try_raises(actual, normal_values, degrees)
        THEN degraded_analysis(actual, normal_values)
        ELSE normal_analysis(actual, normal_values, degrees)


(***************************************************************************)
(* generate_improvement_suggestions                                        *)
(***************************************************************************)
\* negative_activities and positive_activities, in dictionary order
negative_activities ==
    << <<"packagedFood", "Avoid food packaged in plastic">>,
       <<"onlineShopping", "Reduce online shopping/delivery">>,
       <<"wasteFood", "Avoid wasting food">>,
       <<"airConditioningHeating", "Minimize AC/heater usage">> >>
positive_activities ==
    << <<"noDriving", "Use public transport/walk more">>,
       <<"plantMealThanMeat", "Increase plant-based food intake">>,
       <<"useTumbler", "Use a tumbler/reusable container">>,
       <<"saveEnergy", "Turn off unnecessary devices/lights">>,
       <<"separateRecycleWaste", "Sort and recycle your waste">> >>

\* payload.get(activity) is True
is_True(payload, activity) ==
    payload[activity].t = "bool" /\ payload[activity].n = 1

texts(pairs) == [i \in 1..Len(pairs) |-> pairs[i][2]]

\* the list built with the positive activities first
generate_positive_first(payload) ==
    LET neg(pair) == is_True(payload, pair[1])
        pos(pair) == ~is_True(payload, pair[1])
    IN  texts(SelectSeq(positive_activities, pos)) \o
        texts(SelectSeq(negative_activities, neg))

generate_improvement_suggestions(payload) ==
    LET neg(pair) == is_True(payload, pair[1])
        pos(pair) == ~is_True(payload, pair[1])
    IN  texts(SelectSeq(negative_activities, neg)) \o
        texts(SelectSeq(positive_activities, pos))

(***************************************************************************)
(* submit_checklist: the computation of one request                        *)
(***************************************************************************)
PayloadKeys == Activities \cup {"carbonSaved"}

\* int() of a number truncates towards zero
trunc(p) == IF p[1] >= 0 THEN p[1] \div p[2] ELSE -((-p[1]) \div p[2])
\* int(value) raises ValueError for a non-numeric string, TypeError for None
int_raises(value) == value.t \in {"str", "none"}

to_int_bool(value) ==
    IF value.t = "bool" THEN value.n
    ELSE IF int_raises(value) THEN 0
    ELSE trunc(<<value.n, value.d>>)

\* the normalisation of a negative activity written as a true inversion
negative_inverted(raw_val) == IF raw_val = 1 THEN 0 ELSE 1
\* checklist_data[key] = 1 if raw_val == 1 else 0
negative_stored(raw_val) == IF raw_val = 1 THEN 1 ELSE 0

\* the loop building checklist_data
checklist_of(payload) ==
    LET stored(key) ==
            LET raw_val == to_int_bool(get(payload, key, PyNone))
            IN  IF key \in NegativeKeys THEN negative_stored(raw_val) ELSE raw_val
    IN  dict([k \in Activities |-> stored(k)])

\* checklist_data as the mapping handed to calculate_carbon_emissions
as_mapping(checklist_data) ==
    LET value(a) == PyInt(checklist_data[a])
    IN  dict([k \in Activities |-> value(k)])

\* round(x, 2), ties to even
round2(p) ==
    LET q == (100 * p[1]) \div p[2]
        r == (100 * p[1]) % p[2]
    IN  IF 2 * r < p[2] THEN Rat(q, 100)
        ELSE IF 2 * r > p[2] THEN Rat(q + 1, 100)
        ELSE IF q % 2 = 0 THEN Rat(q, 100) ELSE Rat(q + 1, 100)

\* the three float(payload.get(k, 0)) conversions and int(payload.get(
\* "carbonSaved", 0)) are outside any try block
submit_raises(payload) ==
    \/ \E k \in ContinuousKeys : float_raises(get(payload, k, PyInt(0)))
    \/ int_raises(get(payload, "carbonSaved", PyInt(0)))

\* car_km, shower_min, electronic_hours
actual_of(payload) ==
    LET value(k) == float(get(payload, k, PyInt(0)))
    IN  dict([k \in ContinuousKeys |-> value(k)])

\* a tolerance of 1.0 instead of 0.1
should_save_numeric_goal_wide(input_val, suggested_val) ==
    RLt(One, RAbs(RSub(input_val, suggested_val)))
\* abs(float(input_val) - float(suggested_val)) > tolerance, tolerance 0.1
should_save_numeric_goal(input_val, suggested_val) ==
    RLt(Rat(1, 10), RAbs(RSub(input_val, suggested_val)))

\* the twelve save_*_goal flags
save_goal(actual, checklist_data, fuzzy_analysis) ==
    LET flag(a) ==
            IF a \in ContinuousKeys
            THEN should_save_numeric_goal(actual[a], fuzzy_analysis.suggestions[a])
            ELSE IF a \in NegativeKeys THEN checklist_data[a] = 1
            ELSE checklist_data[a] # 1
    IN  dict([k \in Activities |-> flag(k)])

\* a goals record written whatever the flags are
any_goal_always(save) == TRUE
\* the condition of "if (save_car_goal or ... or save_recycle_goal)"
any_goal(save) == \E a \in Activities : save[a]

\* boolean goal columns that all hold 1
goal_columns_ones(save, fuzzy_analysis) ==
    LET column_of(a) ==
            IF ~save[a] THEN None
            ELSE IF a \in ContinuousKeys THEN Some(fuzzy_analysis.suggestions[a])
            ELSE Some(1)
    IN  dict([k \in Activities |-> column_of(k)])
\* the columns <activity>Goal of the DailyGoalsLog row, as goal[activity]
goal_columns(save, fuzzy_analysis) ==
    LET column_of(a) ==
            IF ~save[a] THEN None
            ELSE IF a \in ContinuousKeys THEN Some(fuzzy_analysis.suggestions[a])
            ELSE IF a \in NegativeKeys THEN Some(0)
            ELSE Some(1)
    IN  dict([k \in Activities |-> column_of(k)])

level_name(level) ==
    CASE level = 1 -> "very_low"
      [] level = 2 -> "low"
      [] level = 3 -> "moderate"
      [] level = 4 -> "high"
      [] OTHER -> "very_high"

(***************************************************************************)
(* Bounds of the checked instances                                         *)
(***************************************************************************)
MaxX10 == 250        \* largest actual value of a behaviour, in tenths
MaxB == 12           \* largest baseline
MaxKeysSet == 2      \* most keys present in a checklist handed to the aggregator
MaxEmission100 == 1300  \* largest classified emission, in hundredths
MaxHist == 4         \* most history records handed to the baseline estimator
MaxLogs == 2         \* most DailyCarbonLog rows written in a run of the service
MaxDay == 1          \* last calendar day of a run of the service
MaxPointLogs == 3    \* most DailyCarbonLog rows written in a run with goal checks
UserIds == {1, 2}

\* the tables as created by db.create_all(), with the registered users
InitStore ==
    /\ users = [u \in UserIds |-> [points |-> 0, last_points_added_date |-> <<>>]]
    /\ dailycarbonlogs = <<>>
    /\ dailyGoalsLogs = <<>>
    /\ today = 0
    /\ request = [route |-> "none"]
    /\ response = [status |-> 0]

(***************************************************************************)
(* Direct calls of fuzzy_system_analysis.  One behaviour ranges over every *)
(* actual value 0.0 .. MaxX10/10 and every baseline -1 .. MaxB; the next   *)
(* behaviour takes one of two representative (actual, baseline) pairs, one *)
(* in the aggressive branch and one with a baseline the triangle rejects;  *)
(* the third is at rest (actual 0, baseline 10).                           *)
(***************************************************************************)
FocusPairs == {<<x, b>> : x \in 0..MaxX10, b \in (0 - 1)..MaxB}
RestPairs == {<<130, 10>>, <<50, 0 - 1>>}
NextKey(k) ==
    CASE k = "carTravelKm" -> "showerTimeMinutes"
      [] k = "showerTimeMinutes" -> "electronicTimeHours"
      [] k = "electronicTimeHours" -> "carTravelKm"

FuzzyInput(k, p, q) ==
    LET pair(j) == IF j = k THEN p ELSE IF j = NextKey(k) THEN q ELSE <<0, 10>>
    IN  [actual |-> [j \in ContinuousKeys |-> Rat(pair(j)[1], 10)],
         normal_values |-> [j \in ContinuousKeys |-> pair(j)[2]]]

\* the end-to-end scenario: commute 20 (baseline 10), shower 10 (baseline 12),
\* screen 4 (baseline 8)
Scenario ==
    [actual |-> [j \in ContinuousKeys |->
                    CASE j = "carTravelKm" -> FromInt(20)
                      [] j = "showerTimeMinutes" -> FromInt(10)
                      [] j = "electronicTimeHours" -> FromInt(4)],
     normal_values |-> DEFAULT_VALUES]

InitFuzzy ==
    /\ fn = "fuzzy_system_analysis"
    /\ \/ args = Scenario
       \/ \E k \in ContinuousKeys, p \in FocusPairs, q \in RestPairs :
             args = FuzzyInput(k, p, q)
    /\ ret = <<>>
    /\ pc = "call"
    /\ InitStore

CallFuzzy ==
    /\ fn = "fuzzy_system_analysis" /\ pc = "call"
    /\ ret' = fuzzy_system_analysis(args.actual, args.normal_values)
    /\ pc' = "done"
    /\ UNCHANGED <<fn, args, storeVars>>

NextFuzzy == CallFuzzy
SpecFuzzy == InitFuzzy /\ [][NextFuzzy]_vars

FuzzyDone == fn = "fuzzy_system_analysis" /\ pc = "done"
\* the call took the normal path: no statement of the try block raised
NormalPath == FuzzyDone /\ \A k \in ContinuousKeys : args.normal_values[k] >= 0
Baseline(k) == FromInt(args.normal_values[k])
Floor90(k) == Rat(9 * args.normal_values[k], 10)

\* C1 (as stated): on the normal path, for positive actual x and positive
\* baseline b, every returned suggestion s satisfies 0.9*b <= s <= b, also
\* when x is below 0.9*b.
C1_Original ==
    NormalPath =>
        \A k \in ContinuousKeys :
            (RLt(Zero, args.actual[k]) /\ args.normal_values[k] > 0) =>
                /\ RLe(Floor90(k), ret.suggestions[k])
                /\ RLe(ret.suggestions[k], Baseline(k))

\* C1 (amended): on the normal path, for positive x and b, the suggestion
\* never exceeds b; it is at least 0.9*b whenever x >= 0.9*b, and it is x
\* itself whenever x <= b (in particular below 0.9*b).
C1_SuggestionBounds ==
    NormalPath =>
        \A k \in ContinuousKeys :
            (RLt(Zero, args.actual[k]) /\ args.normal_values[k] > 0) =>
                /\ RLe(ret.suggestions[k], Baseline(k))
                /\ RLe(Floor90(k), args.actual[k]) => RLe(Floor90(k), ret.suggestions[k])
                /\ RLe(args.actual[k], Baseline(k)) => ret.suggestions[k] = args.actual[k]

\* a normal-path result with one actual below 0.9*b (returned as is) and one
\* above its baseline (floored at 0.9*b)
C1_Witness ==
    /\ NormalPath
    /\ args.normal_values["carTravelKm"] = 10
    /\ args.actual["carTravelKm"] = FromInt(5)
    /\ ret.suggestions["carTravelKm"] = FromInt(5)
    /\ args.actual["showerTimeMinutes"] = FromInt(13)
    /\ args.normal_values["showerTimeMinutes"] = 10
    /\ ret.suggestions["showerTimeMinutes"] = FromInt(9)
    /\ args.actual["showerTimeMinutes"] = FromInt(13)
    /\ args.normal_values["showerTimeMinutes"] = 10
    /\ ret.suggestions["showerTimeMinutes"] = FromInt(9)


\* C2 (as stated): for commute 20 with baseline 10 the commute degree is above
\* 0.6, the aggressive branch is taken and the commute suggestion is 9.0;
\* shower 10 (baseline 12) and screen 4 (baseline 8) come back unchanged.
C2_Original ==
    (FuzzyDone /\ args = Scenario) =>
        /\ RLt(Rat(6, 10), ret.membership_degrees["carTravelKm"])
        /\ ret.suggestions["carTravelKm"] = FromInt(9)
        /\ ret.suggestions["showerTimeMinutes"] = FromInt(10)
        /\ ret.suggestions["electronicTimeHours"] = FromInt(4)

\* C2 (amended): for commute 20 with baseline 10, 20 is the right corner of
\* the triangle (8, 12, 20), so the commute degree is 0, neither the
\* aggressive nor the moderate branch is taken, and the commute suggestion is
\* 10.0 (the baseline ceiling); shower 10 and screen 4 come back unchanged.
C2_ScenarioResult ==
    (FuzzyDone /\ args = Scenario) =>
        /\ ret.membership_degrees["carTravelKm"] = Zero
        /\ ret.suggestions["carTravelKm"] = FromInt(10)
        /\ ret.minimum_limits["carTravelKm"] = FromInt(9)
        /\ ret.suggestions["showerTimeMinutes"] = FromInt(10)
        /\ ret.suggestions["electronicTimeHours"] = FromInt(4)

C2_Witness ==
    /\ FuzzyDone
    /\ args = Scenario
    /\ ret.suggestions["carTravelKm"] = FromInt(10)

\* x and b of behaviour k in the call
Actual(k) == args.actual[k]
Exceeds(k) == RLt(Baseline(k), Actual(k))

\* C11: on the normal path, whenever the actual value does not exceed the
\* baseline (x <= b, x = b included) the suggestion is x itself, whatever
\* the membership degree is.
C11_NotExceeding ==
    NormalPath =>
        \A k \in ContinuousKeys :
            RLe(Actual(k), Baseline(k)) => ret.suggestions[k] = Actual(k)

\* commute 10 at baseline 10: the degree is 0.5 and the suggestion is 10
C11_Witness ==
    /\ NormalPath
    /\ Actual("carTravelKm") = FromInt(10)
    /\ args.normal_values["carTravelKm"] = 10
    /\ ret.membership_degrees["carTravelKm"] = Rat(1, 2)
    /\ ret.suggestions["carTravelKm"] = FromInt(10)

\* C15 (as stated): when x exceeds b and the degree is at most 0.3, the
\* final suggestion stays at x.
C15_Original ==
    NormalPath =>
        \A k \in ContinuousKeys :
            (Exceeds(k) /\ RLe(ret.membership_degrees[k], Rat(3, 10))) =>
                ret.suggestions[k] = Actual(k)

\* C15 (amended): when x exceeds b and the degree is at most 0.3, the
\* decision rule leaves x alone and the final ceiling lowers it to b: the
\* suggestion returned is the baseline b.
C15_NoNudgeCeiling ==
    NormalPath =>
        \A k \in ContinuousKeys :
            (Exceeds(k) /\ RLe(ret.membership_degrees[k], Rat(3, 10))) =>
                ret.suggestions[k] = Baseline(k)

\* shower 24.5 at baseline 12, beyond the right corner 24: degree 0 and
\* suggestion 12
C15_Witness ==
    /\ NormalPath
    /\ Actual("showerTimeMinutes") = Rat(245, 10)
    /\ args.normal_values["showerTimeMinutes"] = 12
    /\ ret.membership_degrees["showerTimeMinutes"] = Zero
    /\ ret.suggestions["showerTimeMinutes"] = FromInt(12)

\* C16: on the normal path with b > 0, whenever x exceeds b the suggestion
\* lies in [0.9*b, b], in the aggressive, the moderate and the no-nudge
\* branch alike, and so is strictly below x.
C16_ExceedingBand ==
    NormalPath =>
        \A k \in ContinuousKeys :
            (args.normal_values[k] > 0 /\ Exceeds(k)) =>
                /\ RLe(Floor90(k), ret.suggestions[k])
                /\ RLe(ret.suggestions[k], Baseline(k))
                /\ RLt(ret.suggestions[k], Actual(k))

\* screen 25 at baseline 8 (no nudge, suggestion 8) next to commute 13 at
\* baseline 10 (aggressive, floored at 9)
C16_Witness ==
    /\ NormalPath
    /\ Actual("electronicTimeHours") = FromInt(25)
    /\ args.normal_values["electronicTimeHours"] = 8
    /\ ret.suggestions["electronicTimeHours"] = FromInt(8)
    /\ Actual("carTravelKm") = FromInt(13)
    /\ args.normal_values["carTravelKm"] = 10
    /\ RLt(Rat(6, 10), ret.membership_degrees["carTravelKm"])
    /\ ret.suggestions["carTravelKm"] = FromInt(9)

\* the triangle (0.8*b, 1.2*b, 2*b) evaluated at x itself
TriangleAt(x, b) ==
    LET lo == Rat(8 * b, 10)
        peak == Rat(12 * b, 10)
        hi == FromInt(2 * b)
    IN  IF RLe(x, lo) \/ RLe(hi, x) THEN Zero
        ELSE IF RLe(x, peak) THEN RDiv(RSub(x, lo), RSub(peak, lo))
        ELSE RDiv(RSub(hi, x), RSub(hi, peak))

\* C17 (as stated): for b > 0 and x >= 0 the degree lies in [0, 1], is 0
\* outside the support of the triangle (0.8*b, 1.2*b, 2*b), is exactly 1 at
\* x = 1.2*b also when 1.2*b is not an integer, and is linear in between.
C17_Original ==
    NormalPath =>
        \A k \in ContinuousKeys :
            (args.normal_values[k] > 0 /\ RLe(Zero, Actual(k))) =>
                /\ RLe(Zero, ret.membership_degrees[k])
                /\ RLe(ret.membership_degrees[k], One)
                /\ ret.membership_degrees[k] = TriangleAt(Actual(k), args.normal_values[k])

\* the fallback values of one behaviour
DegradedFor(k) ==
    /\ ret.suggestions[k] = RMul(args.actual[k], Rat(9, 10))
    /\ ret.membership_degrees[k] = Zero
    /\ ret.minimum_limits[k] = RMul(args.actual[k], Rat(8, 10))
\* the normally computed values of one behaviour
NormalFor(k) ==
    /\ ret.minimum_limits[k] = Floor90(k)
    /\ RLe(ret.suggestions[k], RMax(args.actual[k], Floor90(k)))
    /\ RLe(RMin(args.actual[k], Floor90(k)), ret.suggestions[k])
\* the triangle corners of behaviour k are rejected by trimf
Faults(k) == args.normal_values[k] < 0

\* C7: if a step of the fuzzy computation raises, all three behaviours are
\* degraded at once (suggestion 0.9*actual, degree 0, limit 0.8*actual,
\* baseline unchanged); no result mixes normal and fallback values.
C7_AtomicFallback ==
    FuzzyDone =>
        /\ ret.normal_values = args.normal_values
        /\ (\E k \in ContinuousKeys : Faults(k)) =>
               \A k \in ContinuousKeys : DegradedFor(k)
        /\ \/ \A k \in ContinuousKeys : DegradedFor(k)
           \/ \A k \in ContinuousKeys : NormalFor(k)

\* only the commute baseline is rejected, and shower, which alone would have
\* been nudged from 13 to 9, is returned degraded too
C7_Witness ==
    /\ FuzzyDone
    /\ Faults("carTravelKm")
    /\ ~Faults("showerTimeMinutes")
    /\ args.actual["showerTimeMinutes"] = FromInt(13)
    /\ args.normal_values["showerTimeMinutes"] = 10
    /\ ret.suggestions["showerTimeMinutes"] = Rat(117, 10)
    /\ ret.minimum_limits["showerTimeMinutes"] = Rat(104, 10)


(***************************************************************************)
(* Direct calls of calculate_carbon_emissions, classify_level and          *)
(* calculate_normal_values.                                                *)
(***************************************************************************)
\* values a checklist entry takes: booleans and numbers
AggVals == {PyBool(TRUE), PyBool(FALSE), PyInt(0), PyInt(3), PyNum(25, 10), PyInt(0 - 2)}
KeySets == {S \in SUBSET Activities : Cardinality(S) <= MaxKeysSet}
Checklist(S, f) == [a \in Activities |-> IF a \in S THEN f[a] ELSE PyAbsent]

\* pairs v <= w of emission values, in hundredths: neighbours, and w on a
\* grid of halves
ClassifyPairs ==
    {<<v, w>> \in (0..MaxEmission100) \X (0..MaxEmission100) :
        v <= w /\ (w <= v + 1 \/ w % 50 = 0)}

\* history records: the three continuous columns, nullable
HistRecords ==
    {[carTravelKm |-> c, showerTimeMinutes |-> q[1], electronicTimeHours |-> q[2]] :
        c \in {None, Some(4), Some(6), Some(9)},
        q \in {<<Some(5), None>>, <<Some(15), Some(2)>>}}
Histories == UNION {[1..n -> HistRecords] : n \in 0..MaxHist}

InitPure ==
    /\ \/ /\ fn = "calculate_carbon_emissions"
          /\ \E S \in KeySets : \E f \in [S -> AggVals] : args = Checklist(S, f)
       \/ /\ fn = "classify_level"
          /\ args \in ClassifyPairs
       \/ /\ fn = "calculate_normal_values"
          /\ args \in Histories
    /\ ret = <<>>
    /\ pc = "call"
    /\ InitStore

CallAggregate ==
    /\ fn = "calculate_carbon_emissions" /\ pc = "call"
    /\ ~calculate_raises(args)
    /\ ret' = calculate_carbon_emissions(args)
    /\ pc' = "done"
    /\ UNCHANGED <<fn, args, storeVars>>

CallClassify ==
    /\ fn = "classify_level" /\ pc = "call"
    /\ ret' = <<classify_level(Rat(args[1], 100)), classify_level(Rat(args[2], 100))>>
    /\ pc' = "done"
    /\ UNCHANGED <<fn, args, storeVars>>

CallBaseline ==
    /\ fn = "calculate_normal_values" /\ pc = "call"
    /\ ret' = calculate_normal_values(args)
    /\ pc' = "done"
    /\ UNCHANGED <<fn, args, storeVars>>

NextPure == CallAggregate \/ CallClassify \/ CallBaseline
SpecPure == InitPure /\ [][NextPure]_vars

\* sum of a rational-valued term over the activities 1..i
RECURSIVE SumTerms(_, _)
SumTerms(term, i) == IF i = 0 THEN Zero ELSE RAdd(term[ActivityOrder[i]], SumTerms(term, i - 1))

\* the two pools of the claim, for the checklist in args
Weight(a) == EMISSION_FACTORS[a]
PoolE ==
    [a \in Activities |->
        CASE args[a].t = "bool" ->
                IF args[a].n = 1 /\ RLt(Zero, Weight(a)) THEN Weight(a) ELSE Zero
          [] args[a].t = "num" -> RMul(<<args[a].n, args[a].d>>, Weight(a))
          [] OTHER -> Zero]
PoolR ==
    [a \in Activities |->
        IF args[a].t = "bool" /\ args[a].n = 1 /\ RLt(Weight(a), Zero)
        THEN RAbs(Weight(a)) ELSE Zero]
E_minus_R == RSub(SumTerms(PoolE, Len(ActivityOrder)), SumTerms(PoolR, Len(ActivityOrder)))
NothingDone == \A a \in Activities : args[a].n = 0

\* C8: calculate_carbon_emissions returns max(0, E - R): true booleans add
\* their weight to E (positive) or its absolute value to R (negative), false
\* booleans add nothing, numbers add value*weight to E, missing keys count
\* as 0; the result is never negative, and 0 when nothing was done.
C8_Aggregate ==
    (fn = "calculate_carbon_emissions" /\ pc = "done") =>
        /\ ret = (IF RLt(E_minus_R, Zero) THEN Zero ELSE E_minus_R)
        /\ RLe(Zero, ret)
        /\ NothingDone => ret = Zero

\* a day whose reductions exceed its emissions: 3 km by car (0.63) against
\* noDriving (1.0) is clamped to 0
C8_Witness ==
    /\ fn = "calculate_carbon_emissions" /\ pc = "done"
    /\ args["carTravelKm"] = PyInt(3)
    /\ args["noDriving"] = PyBool(TRUE)
    /\ E_minus_R = Rat(0 - 37, 100)
    /\ ret = Zero

\* the tier of the claim for an emission value in hundredths
Band(v) ==
    CASE v < 250 -> 1
      [] v >= 250 /\ v < 500 -> 2
      [] v >= 500 /\ v < 800 -> 3
      [] v >= 800 /\ v < 1200 -> 4
      [] v >= 1200 -> 5

\* C9: for v >= 0 classify_level(v) is 1 on [0,2.5), 2 on [2.5,5), 3 on
\* [5,8), 4 on [8,12), 5 from 12 on; it lies in 1..5 and is non-decreasing.
C9_Classify ==
    (fn = "classify_level" /\ pc = "done") =>
        /\ ret[1] = Band(args[1]) /\ ret[2] = Band(args[2])
        /\ ret[1] \in 1..5 /\ ret[2] \in 1..5
        /\ ret[1] <= ret[2]

\* the boundary 5.00 against its left neighbour 4.99
C9_Witness ==
    /\ fn = "classify_level" /\ pc = "done"
    /\ args = <<499, 500>>
    /\ ret = <<2, 3>>

\* the values of column k of the history in args, null counted as 0
Observed(k) == [i \in 1..Len(args) |-> IF args[i][k] = None THEN 0 ELSE args[i][k][1]]
\* v is the element at (0-based) index m of the values of column k sorted
\* ascending: at most m values are smaller, more than m are not larger
IsAtSortedIndex(v, k, m) ==
    /\ \E i \in 1..Len(args) : Observed(k)[i] = v
    /\ Cardinality({i \in 1..Len(args) : Observed(k)[i] < v}) <= m
    /\ Cardinality({i \in 1..Len(args) : Observed(k)[i] <= v}) > m

\* C10: with fewer than 3 records calculate_normal_values returns the
\* default {commute 10, shower 12, screen 8}; with n >= 3 it returns, for
\* each behaviour on its own, the element at index floor(n/2) of that
\* behaviour's values sorted ascending, a null value counted as 0.
C10_Baseline ==
    (fn = "calculate_normal_values" /\ pc = "done") =>
        IF Len(args) < 3
        THEN /\ ret["carTravelKm"] = 10
             /\ ret["showerTimeMinutes"] = 12
             /\ ret["electronicTimeHours"] = 8
        ELSE \A k \in ContinuousKeys : IsAtSortedIndex(ret[k], k, Len(args) \div 2)

\* commute history 9, 4, 6 (sorted 4, 6, 9) gives 6
C10_Witness ==
    /\ fn = "calculate_normal_values" /\ pc = "done"
    /\ Len(args) = 3
    /\ Observed("carTravelKm") = <<9, 4, 6>>
    /\ ret["carTravelKm"] = 6

(***************************************************************************)
(* The service: POST /submit-checklist requests against the store, with    *)
(* the calendar advancing between them.                                    *)
(***************************************************************************)
\* the rows of the caller within the last 30 days
historical_logs(user_id) ==
    LET recent(row) == row.usersId = user_id /\ row.logDate >= today - 30
    IN  SelectSeq(dailycarbonlogs, recent)

\* the DailyCarbonLog row of a request
daily_log(user_id, payload, checklist_data, total_kg, level) ==
    [a \in Activities |-> Some(checklist_data[a])] @@
    [id |-> Len(dailycarbonlogs) + 1,
     usersId |-> user_id,
     totalCarbon |-> round2(total_kg),
     carbonLevel |-> level,
     IslandPath |-> level - 1,
     carbonSaved |-> trunc(float(get(payload, "carbonSaved", PyInt(0)))),
     logDate |-> today]

\* the DailyGoalsLog row of a request
goals_log(user_id, save, fuzzy_analysis, improvement_suggestions) ==
    [id |-> Len(dailyGoalsLogs) + 1,
     usersId |-> user_id,
     logDate |-> today,
     goal |-> goal_columns(save, fuzzy_analysis),
     suggestions |-> IF \E k \in ContinuousKeys : save[k]
                     THEN Some(fuzzy_analysis.suggestions) ELSE None,
     improvement_suggestions |-> IF improvement_suggestions # <<>>
                                 THEN Some(improvement_suggestions) ELSE None]

\* the body of the 201 response
created(total_kg, level, fuzzy_analysis, improvement_suggestions, points, save) ==
    [status |-> 201,
     totalcarbon |-> round2(total_kg),
     carbonLevel |-> level,
     emission_category |-> level_name(level),
     fuzzy_analysis |-> fuzzy_analysis,
     improvement_suggestions |-> improvement_suggestions,
     historical_data_points |-> points,
     goals_saved |->
        [numeric_goals |-> \E k \in ContinuousKeys : save[k],
         improvement_goals |-> improvement_suggestions # <<>>]]

\* a day on which every good habit is kept and no value is reported
GoodDay ==
    [k \in PayloadKeys |->
        IF k \in PositiveKeys THEN PyBool(TRUE)
        ELSE IF k \in NegativeKeys THEN PyBool(FALSE)
        ELSE PyAbsent]
\* the empty body
Empty == [k \in PayloadKeys |-> PyAbsent]
\* packaged food only, commute 20, shower 10, screen 4
ScenarioDay ==
    [k \in PayloadKeys |->
        CASE k = "packagedFood" -> PyBool(TRUE)
          [] k = "carTravelKm" -> PyInt(20)
          [] k = "showerTimeMinutes" -> PyInt(10)
          [] k = "electronicTimeHours" -> PyInt(4)
          [] k = "carbonSaved" -> PyAbsent
          [] OTHER -> PyBool(FALSE)]
With(payload, k, v) == [payload EXCEPT ![k] = v]

\* the request bodies that are served: the three days above and GoodDay
\* changed in one key
Payloads ==
    {GoodDay, Empty, ScenarioDay,
     With(GoodDay, "carTravelKm", PyInt(13)),
     With(GoodDay, "packagedFood", PyBool(TRUE)),
     With(GoodDay, "packagedFood", PyInt(1)),
     With(GoodDay, "noDriving", PyBool(FALSE))}
\* request bodies with a continuous value that is not a number
Malformed ==
    {With(GoodDay, "carTravelKm", PyStr),
     With(GoodDay, "showerTimeMinutes", PyNone)}

\* a token whose uid has no row in users
Unregistered == {0}
\* the second user sends one of the bodies, an unregistered caller one
Requests ==
    ({1} \X (Payloads \cup Malformed))
    \cup ((UserIds \ {1}) \X {ScenarioDay})
    \cup (Unregistered \X {GoodDay})

Init ==
    /\ fn = "service" /\ args = <<>> /\ ret = <<>> /\ pc = "serve"
    /\ InitStore

\* the handler of POST /submit-checklist
submit_checklist(uid, payload) ==
    /\ request' = [route |-> "submit-checklist", uid |-> uid, payload |-> payload]
    /\ IF uid \notin DOMAIN users
       THEN /\ response' = [status |-> 404]
            /\ UNCHANGED <<dailycarbonlogs, dailyGoalsLogs>>
       ELSE IF submit_raises(payload)
       THEN /\ response' = [status |-> 500]
            /\ UNCHANGED <<dailycarbonlogs, dailyGoalsLogs>>
       ELSE LET checklist_data == checklist_of(payload)
                total_kg == calculate_carbon_emissions(as_mapping(checklist_data))
                level == classify_level(total_kg)
                history == historical_logs(uid)
                normal_values == calculate_normal_values(history)
                actual == actual_of(payload)
                fuzzy_analysis == fuzzy_system_analysis(actual, normal_values)
                improvement_suggestions == generate_improvement_suggestions(payload)
                save == save_goal(actual, checklist_data, fuzzy_analysis)
            IN  /\ dailycarbonlogs' =
                     Append(dailycarbonlogs,
                            daily_log(uid, payload, checklist_data, total_kg, level))
                /\ dailyGoalsLogs' =
                     IF any_goal(save)
                     THEN Append(dailyGoalsLogs,
                                 goals_log(uid, save, fuzzy_analysis, improvement_suggestions))
                     ELSE dailyGoalsLogs
                /\ response' = created(total_kg, level, fuzzy_analysis,
                                       improvement_suggestions, Len(history), save)
    /\ UNCHANGED <<users, today, callVars>>

SubmitChecklist(uid, payload) ==
    /\ pc = "serve"
    /\ Len(dailycarbonlogs) < MaxLogs
    /\ submit_checklist(uid, payload)

\* midnight passes
midnight ==
    /\ today < MaxDay
    /\ today' = today + 1
    /\ UNCHANGED <<users, dailycarbonlogs, dailyGoalsLogs, request, response, callVars>>

AdvanceDay ==
    /\ pc = "serve"
    /\ midnight

Next ==
    \/ \E r \in Requests : SubmitChecklist(r[1], r[2])
    \/ AdvanceDay

Spec == Init /\ [][Next]_vars

Submitted == request.route = "submit-checklist"
Registered == Submitted /\ request.uid \in UserIds
Served == Registered /\ response.status = 201
LastLog == dailycarbonlogs[Len(dailycarbonlogs)]

\* C3 (as stated): every submission of a registered user, also one whose
\* continuous value is a non-numeric string or null, is answered with the
\* complete result and no exception reaches the caller.
C3_Original ==
    Registered =>
        /\ response.status = 201
        /\ DOMAIN response.fuzzy_analysis =
              {"suggestions", "membership_degrees", "minimum_limits", "normal_values"}

\* C4 (as stated): the store holds at most one DailyCarbonLog row and at
\* most one DailyGoalsLog row per (user, logDate).
C4_Original ==
    /\ \A i, j \in 1..Len(dailycarbonlogs) :
          (/\ dailycarbonlogs[i].usersId = dailycarbonlogs[j].usersId
           /\ dailycarbonlogs[i].logDate = dailycarbonlogs[j].logDate) => i = j
    /\ \A i, j \in 1..Len(dailyGoalsLogs) :
          (/\ dailyGoalsLogs[i].usersId = dailyGoalsLogs[j].usersId
           /\ dailyGoalsLogs[i].logDate = dailyGoalsLogs[j].logDate) => i = j

\* C5 (as stated): the stored value of each of the four negative activities
\* is the inverse of the raw payload value (raw 1/true stored as 0, raw
\* 0/false stored as 1) and the five positive activities are stored as sent.
C5_Original ==
    Served =>
        /\ \A k \in NegativeKeys :
              LastLog[k] = Some(negative_inverted(to_int_bool(get(request.payload, k, PyNone))))
        /\ \A k \in PositiveKeys :
              LastLog[k] = Some(to_int_bool(get(request.payload, k, PyNone)))

\* the decisions of the request just served, read from what it stored and
\* answered
Decided(k) ==
    IF k \in ContinuousKeys
    THEN RLt(Rat(1, 10),
             RAbs(RSub(float(get(request.payload, k, PyInt(0))),
                       response.fuzzy_analysis.suggestions[k])))
    ELSE IF k \in NegativeKeys THEN LastLog[k] = Some(1)
    ELSE LastLog[k] # Some(1)

\* C6: every persisted DailyGoalsLog row has a non-null field among its
\* twelve goal fields, and a served submission writes one DailyGoalsLog row
\* when at least one of its twelve decisions is true and none otherwise.
C6_GoalRecord ==
    /\ [](\A i \in 1..Len(dailyGoalsLogs) :
             \E a \in Activities : dailyGoalsLogs[i].goal[a] # None)
    /\ [][(Served' /\ Len(dailycarbonlogs') = Len(dailycarbonlogs) + 1) =>
             IF \E k \in Activities : Decided(k)'
             THEN /\ Len(dailyGoalsLogs') = Len(dailyGoalsLogs) + 1
                  /\ \A i \in 1..Len(dailyGoalsLogs) : dailyGoalsLogs'[i] = dailyGoalsLogs[i]
             ELSE dailyGoalsLogs' = dailyGoalsLogs]_vars

\* one submission that wrote no goals row followed by one that wrote a row
\* holding only the commute goal
C6_Witness ==
    /\ Len(dailycarbonlogs) = 2 /\ Len(dailyGoalsLogs) = 1
    /\ Served /\ request.payload = With(GoodDay, "carTravelKm", PyInt(13))
    /\ dailyGoalsLogs[1].goal["carTravelKm"] = Some(FromInt(9))
    /\ \A a \in Activities \ {"carTravelKm"} : dailyGoalsLogs[1].goal[a] = None

(***************************************************************************)
(* One caller sending the same body again and again: the request bodies    *)
(* range over every raw form of every boolean flag, every combination of   *)
(* true/false flags and every value of each continuous behaviour.          *)
(***************************************************************************)
BooleanKeys == NegativeKeys \cup PositiveKeys
RawFlags == {PyBool(TRUE), PyBool(FALSE), PyInt(1), PyInt(0), PyAbsent}
\* the flags in S sent as true and the others as false
FlagDay(S) ==
    [k \in PayloadKeys |->
        IF k \in S THEN PyBool(TRUE)
        ELSE IF k \in BooleanKeys THEN PyBool(FALSE)
        ELSE PyAbsent]

RequestBodies ==
    {With(base, k, v) : base \in {GoodDay, Empty}, k \in BooleanKeys, v \in RawFlags}
    \cup {FlagDay(S) : S \in SUBSET BooleanKeys}
    \cup {With(GoodDay, k, PyNum(x, 10)) : k \in ContinuousKeys, x \in 0..MaxX10}

InitRequest ==
    /\ fn = "submit_checklist"
    /\ \E body \in RequestBodies : args = <<1, body>>
    /\ ret = <<>>
    /\ pc = "serve"
    /\ InitStore

SubmitArgs ==
    /\ fn = "submit_checklist"
    /\ SubmitChecklist(args[1], args[2])

NextRequest == SubmitArgs
SpecRequest == InitRequest /\ [][NextRequest]_vars

\* the step is a served submission
ServedStep == Served' /\ Len(dailycarbonlogs') = Len(dailycarbonlogs) + 1
\* the row it stored
NewLog == dailycarbonlogs'[Len(dailycarbonlogs')]
\* the goal column of activity a it persisted, null when it wrote no row
NewGoal(a) ==
    IF Len(dailyGoalsLogs') = Len(dailyGoalsLogs) + 1
    THEN dailyGoalsLogs'[Len(dailyGoalsLogs')].goal[a]
    ELSE None
\* |actual - suggested| of behaviour k in the step
Gap(k) ==
    RAbs(RSub(float(get(request'.payload, k, PyInt(0))),
              response'.fuzzy_analysis.suggestions[k]))

\* C12: for each continuous behaviour a submission persists a numeric goal
\* if and only if |actual - suggested| > 0.1, and the value persisted is the
\* suggested value; otherwise the goal field is null.  Actual 10.0 with
\* suggested 10.05 gives no goal, actual 10.0 with suggested 9.8 gives one.
C12_NumericGoal ==
    /\ ~should_save_numeric_goal(FromInt(10), Rat(1005, 100))
    /\ should_save_numeric_goal(FromInt(10), Rat(98, 10))
    /\ [][ServedStep =>
             \A k \in ContinuousKeys :
                 IF RLt(Rat(1, 10), Gap(k))
                 THEN NewGoal(k) = Some(response'.fuzzy_analysis.suggestions[k])
                 ELSE NewGoal(k) = None]_vars

\* screen 8.1 against baseline 8 is nudged to 7.2 and 7.2 is the goal
\* persisted; the commute and shower goals are null
C12_Witness ==
    /\ Served
    /\ request.payload = With(GoodDay, "electronicTimeHours", PyNum(81, 10))
    /\ Len(dailyGoalsLogs) = 1
    /\ dailyGoalsLogs[1].goal["electronicTimeHours"] = Some(Rat(72, 10))
    /\ dailyGoalsLogs[1].goal["carTravelKm"] = None
    /\ dailyGoalsLogs[1].goal["showerTimeMinutes"] = None

\* C13: a negative activity gets the goal 0 if and only if its stored value
\* is 1, a positive activity gets the goal 1 if and only if its stored value
\* is not 1, and in every other case the goal field is null.
C13_BooleanGoal ==
    [][ServedStep =>
          /\ \A k \in NegativeKeys :
                NewGoal(k) = IF NewLog[k] = Some(1) THEN Some(0) ELSE None
          /\ \A k \in PositiveKeys :
                NewGoal(k) = IF NewLog[k] # Some(1) THEN Some(1) ELSE None]_vars

\* waste food and no tumbler: goals 0 and 1, every other boolean goal null
C13_Witness ==
    /\ Served
    /\ request.payload = FlagDay(BooleanKeys \ {"useTumbler"})
    /\ Len(dailyGoalsLogs) = 1
    /\ \A k \in NegativeKeys : dailyGoalsLogs[1].goal[k] = Some(0)
    /\ dailyGoalsLogs[1].goal["useTumbler"] = Some(1)
    /\ \A k \in PositiveKeys \ {"useTumbler"} : dailyGoalsLogs[1].goal[k] = None

\* the nine activities in table order with their fixed strings
Nudges == negative_activities \o positive_activities
\* the 1-based place of a string in that table, 0 if it is not in it
Place(text) ==
    IF \E i \in 1..Len(Nudges) : Nudges[i][2] = text
    THEN CHOOSE i \in 1..Len(Nudges) : Nudges[i][2] = text
    ELSE 0
\* the flag of an activity is the boolean true
SentTrue(a) == request.payload[a] = PyBool(TRUE)

\* C14: in the list returned each negative activity contributes its string
\* exactly when its raw flag is true, each positive activity exactly when
\* its flag is not true, no string appears twice, and the order is the
\* table order packagedFood .. separateRecycleWaste.
C14_Suggestions ==
    Served =>
        LET list == response.improvement_suggestions
        IN  /\ \A i \in 1..Len(Nudges) :
                  (\E j \in 1..Len(list) : list[j] = Nudges[i][2])
                      <=> IF Nudges[i][1] \in NegativeKeys
                          THEN SentTrue(Nudges[i][1])
                          ELSE ~SentTrue(Nudges[i][1])
            /\ \A j \in 1..Len(list) : Place(list[j]) > 0
            /\ \A i, j \in 1..Len(list) : i < j => Place(list[i]) < Place(list[j])

\* online shopping and AC done, tumbler and recycling skipped
C14_Witness ==
    /\ Served
    /\ request.payload = FlagDay({"onlineShopping", "airConditioningHeating",
                                  "noDriving", "plantMealThanMeat", "saveEnergy"})
    /\ response.improvement_suggestions =
          <<"Reduce online shopping/delivery", "Minimize AC/heater usage",
            "Use a tumbler/reusable container", "Sort and recycle your waste">>

\* C20 (as stated): within one submission, for each of the nine boolean
\* activities and every raw value among true, false, 1, 0 and absent, the
\* improvement suggestion of the activity is returned if and only if its
\* boolean goal is persisted.  Stated for the first submission of a day.
C20_Original ==
    (Served /\ Len(dailycarbonlogs) = 1) =>
        \A i \in 1..Len(Nudges) :
            (\E j \in 1..Len(response.improvement_suggestions) :
                response.improvement_suggestions[j] = Nudges[i][2])
            <=> /\ Len(dailyGoalsLogs) = 1
                /\ dailyGoalsLogs[1].goal[Nudges[i][1]] # None

(***************************************************************************)
(* check_goals_achieved                                                    *)
(***************************************************************************)
\* check_goal_achieved(goal_val, actual_val, goal_type): None, True or False
check_goal_achieved(goal_val, actual_val, goal_type) ==
    IF goal_val = None THEN None
    ELSE IF goal_type = "numeric" THEN Some(RLe(FromInt(actual_val[1]), goal_val[1]))
    ELSE IF goal_type = "boolean" THEN Some(actual_val[1] = goal_val[1])
    ELSE Some(FALSE)

\* the result of the two loops for one activity
achieved(today_log, yesterday_goals, a) ==
    check_goal_achieved(yesterday_goals.goal[a], today_log[a],
                        IF a \in ContinuousKeys THEN "numeric" ELSE "boolean")

\* points_to_add: 5 for every goal achieved
points_to_add(today_log, yesterday_goals) ==
    5 * Cardinality({a \in Activities :
                        achieved(today_log, yesterday_goals, a) = Some(TRUE)})

\* a test that never finds the points of the day added
points_never_added(user, day) == FALSE
\* the else branch of "if not user.last_points_added_date or
\* user.last_points_added_date != today"
points_already_added(user, day) ==
    user.last_points_added_date # None /\ user.last_points_added_date = Some(day)

\* points_earned_today for the user row as loaded
points_earned(user, day, to_add) ==
    IF ~points_already_added(user, day) /\ to_add > 0 THEN to_add ELSE 0

\* the points written with the database's current value as the base
points_incremented(loaded, stored, earned) == stored + earned
\* user.points += points_to_add on the loaded row: the UPDATE carries the
\* value computed from the points the request loaded
points_written(loaded, stored, earned) == loaded + earned

\* the user row after the request: `user` as loaded, `stored` as in the table
user_after(user, stored, day, to_add) ==
    IF points_earned(user, day, to_add) > 0
    THEN [points |-> points_written(user.points, stored.points,
                                    points_earned(user, day, to_add)),
          last_points_added_date |-> Some(day)]
    ELSE stored

\* the rows the two queries may return with .first()
todays_logs(user_id, day) ==
    {i \in 1..Len(dailycarbonlogs) :
        dailycarbonlogs[i].usersId = user_id /\ dailycarbonlogs[i].logDate = day}
yesterdays_goals(user_id, day) ==
    {j \in 1..Len(dailyGoalsLogs) :
        dailyGoalsLogs[j].usersId = user_id /\ dailyGoalsLogs[j].logDate = day - 1}

not_found(message) == [status |-> 404, message |-> message]

\* the body of the 200 response
checked(day, today_log, yesterday_goals, earned, total) ==
    [status |-> 200,
     date |-> day,
     goals_achieved |->
        [a \in BooleanKeys |-> achieved(today_log, yesterday_goals, a)],
     numeric_goals |->
        [a \in ContinuousKeys |->
            [target |-> yesterday_goals.goal[a],
             achieved |-> achieved(today_log, yesterday_goals, a)]],
     points_earned |-> earned,
     total_points |-> total]

\* the handler of GET /check-goals-achieved, run without interruption
check_goals_achieved(uid) ==
    /\ request' = [route |-> "check-goals-achieved", uid |-> uid]
    /\ IF uid \notin DOMAIN users
       THEN response' = not_found("User not found") /\ UNCHANGED users
       ELSE IF todays_logs(uid, today) = {}
       THEN response' = not_found("No carbon log found for today") /\ UNCHANGED users
       ELSE IF yesterdays_goals(uid, today) = {}
       THEN response' = not_found("No goals found for yesterday") /\ UNCHANGED users
       ELSE \E i \in todays_logs(uid, today), j \in yesterdays_goals(uid, today) :
              LET today_log == dailycarbonlogs[i]
                  yesterday_goals == dailyGoalsLogs[j]
                  to_add == points_to_add(today_log, yesterday_goals)
                  user == users[uid]
              IN  /\ users' = [users EXCEPT
                                  ![uid] = user_after(user, user, today, to_add)]
                  /\ response' = checked(today, today_log, yesterday_goals,
                                         points_earned(user, today, to_add),
                                         users'[uid].points)
    /\ UNCHANGED <<dailycarbonlogs, dailyGoalsLogs, today, callVars>>

(***************************************************************************)
(* The service with goal checks: one user submitting a few bodies, the     *)
(* calendar, and GET /check-goals-achieved by any caller.                  *)
(***************************************************************************)
PointsBodies ==
    {GoodDay,
     With(GoodDay, "noDriving", PyBool(FALSE)),
     With(GoodDay, "carTravelKm", PyInt(13))}

SubmitPoints(payload) ==
    /\ pc = "serve"
    /\ Len(dailycarbonlogs) < MaxPointLogs
    /\ submit_checklist(1, payload)

CheckGoalsAchieved(uid) ==
    /\ pc = "serve"
    /\ check_goals_achieved(uid)

NextPoints ==
    \/ \E payload \in PointsBodies : SubmitPoints(payload)
    \/ AdvanceDay
    \/ \E uid \in UserIds \cup Unregistered : CheckGoalsAchieved(uid)

SpecPoints == Init /\ [][NextPoints]_vars

\* the step is a goal check answered with a result
CheckedStep ==
    /\ request'.route = "check-goals-achieved"
    /\ response'.status = 200
    /\ dailycarbonlogs' = dailycarbonlogs /\ today' = today
AddedToday(u) == users[u].last_points_added_date = Some(today)

\* C18: within one calendar day the points of a user grow in at most one
\* check-goals-achieved call: points only grow in a call made while no
\* points were added that day, which marks the day; once the day is marked,
\* every later call that day reports points_earned = 0 and leaves points
\* and last_points_added_date as they are; submissions change neither.
C18_OncePerDay ==
    /\ [][\A u \in UserIds :
             users'[u].points # users[u].points =>
                 /\ CheckedStep /\ request'.uid = u
                 /\ ~AddedToday(u)
                 /\ users'[u].last_points_added_date = Some(today)
                 /\ response'.points_earned = users'[u].points - users[u].points]_vars
    /\ [][(CheckedStep /\ AddedToday(request'.uid)) =>
             /\ response'.points_earned = 0
             /\ users' = users]_vars
    /\ [][\A u \in UserIds :
             (AddedToday(u) /\ today' = today) =>
                 users'[u] = users[u]]_vars

\* a later check of a day with two logs: 5 points were earned by an earlier
\* call, and this call reports 0 with the total still 5
C18_Witness ==
    /\ request.route = "check-goals-achieved" /\ request.uid = 1
    /\ response.status = 200
    /\ response.points_earned = 0
    /\ response.total_points = 5
    /\ users[1].points = 5
    /\ users[1].last_points_added_date = Some(today)
    /\ Cardinality(todays_logs(1, today)) = 2

(***************************************************************************)
(* Two GET /check-goals-achieved requests of user 1 served by two workers. *)
(* Each request has its own session: it loads the user row and the two     *)
(* records (lines 321-335), works on what it loaded, and commits (line     *)
(* 390).  The store is prepared by submissions before the requests start.  *)
(* Here pc and ret are per worker: pc[w] is "start", "loaded" or "done",   *)
(* ret[w] holds what the session of w loaded.                              *)
(***************************************************************************)
Workers == {"w1", "w2"}

InitRace ==
    /\ fn = "check_goals_achieved" /\ args = 1
    /\ pc = [w \in Workers |-> "start"]
    /\ ret = [w \in Workers |-> [loaded |-> FALSE]]
    /\ InitStore

NoneStarted == \A w \in Workers : pc[w] = "start"

SubmitBefore(payload) ==
    /\ NoneStarted
    /\ Len(dailycarbonlogs) < MaxLogs
    /\ submit_checklist(args, payload)

DayBefore ==
    /\ NoneStarted
    /\ midnight

\* lines 321-382: the queries and the two loops
LoadCheck(w) ==
    /\ pc[w] = "start"
    /\ request' = [route |-> "check-goals-achieved", uid |-> args]
    /\ IF todays_logs(args, today) = {}
       THEN /\ response' = not_found("No carbon log found for today")
            /\ pc' = [pc EXCEPT ![w] = "done"]
            /\ UNCHANGED ret
       ELSE IF yesterdays_goals(args, today) = {}
       THEN /\ response' = not_found("No goals found for yesterday")
            /\ pc' = [pc EXCEPT ![w] = "done"]
            /\ UNCHANGED ret
       ELSE \E i \in todays_logs(args, today), j \in yesterdays_goals(args, today) :
              /\ ret' = [ret EXCEPT ![w] =
                           [loaded |-> TRUE,
                            user |-> users[args],
                            today |-> today,
                            today_log |-> dailycarbonlogs[i],
                            yesterday_goals |-> dailyGoalsLogs[j],
                            to_add |-> points_to_add(dailycarbonlogs[i],
                                                     dailyGoalsLogs[j])]]
              /\ pc' = [pc EXCEPT ![w] = "loaded"]
              /\ UNCHANGED response
    /\ UNCHANGED <<fn, args, users, dailycarbonlogs, dailyGoalsLogs, today>>

\* lines 384-414: the check on the loaded row, the write and the commit
CommitCheck(w) ==
    /\ pc[w] = "loaded"
    /\ LET session == ret[w]
           earned == points_earned(session.user, session.today, session.to_add)
       IN  /\ users' = [users EXCEPT
                           ![args] = user_after(session.user, users[args],
                                                session.today, session.to_add)]
           /\ response' = checked(session.today, session.today_log,
                                  session.yesterday_goals, earned,
                                  IF earned > 0 THEN users'[args].points
                                  ELSE session.user.points)
    /\ pc' = [pc EXCEPT ![w] = "done"]
    /\ UNCHANGED <<fn, args, ret, dailycarbonlogs, dailyGoalsLogs, today, request>>

NextRace ==
    \/ \E payload \in PointsBodies : SubmitBefore(payload)
    \/ DayBefore
    \/ \E w \in Workers : LoadCheck(w)
    \/ \E w \in Workers : CommitCheck(w)

SpecRace == InitRace /\ [][NextRace]_vars

RaceOver == fn = "check_goals_achieved" /\ \A w \in Workers : pc[w] = "done"
Awarded(w) == ret[w].loaded /\ pc[w] = "done"

\* C19: when two check-goals-achieved requests of one user on one day
\* overlap, the stored points exceed the starting total (0) by at most one
\* request's award: the total is 0 or the award of one of the requests,
\* never the sum of two.
C19_NoDoubleCredit ==
    fn = "check_goals_achieved" =>
        \/ users[args].points = 0
        \/ \E w \in Workers : Awarded(w) /\ users[args].points = ret[w].to_add

\* both requests loaded the user row before either committed, both
\* committed an award of 5, and the stored total is 5
C19_Witness ==
    /\ RaceOver
    /\ \A w \in Workers :
          /\ ret[w].loaded
          /\ ret[w].user.last_points_added_date = None
          /\ ret[w].to_add = 5
    /\ users[args].points = 5


====
